---------------------------- MODULE Spec2Model ----------------------------
(***************************************************************************)
(* The phishing feature extractor (FeatureExtractNotSafe.py): the three    *)
(* feature groups, the two batch loops over the whitelist and the          *)
(* blacklist, the merge of the groups' dictionaries into one row and the   *)
(* CSV writer.                                                             *)
(*                                                                         *)
(* A Python str is a sequence of one-character strings.  A Python dict is  *)
(* a sequence of <<key, value>> pairs in insertion order.  A Python float  *)
(* that the code gets from a division is kept in hundredths (Ratio).       *)
(***************************************************************************)
EXTENDS Integers, Sequences, FiniteSets, TLC

None == "None"

\* F(e), with e evaluated once
With(e, F(_)) == CHOOSE r \in {F(x) : x \in {e}} : TRUE

(***************************************************************************)
(* Python str operations                                                   *)
(***************************************************************************)
\* s[i-1:].startswith(p), for a position i from 1
StartsWithAt(s, i, p) ==
    /\ i + Len(p) - 1 <= Len(s)
    /\ \A j \in 1..Len(p) : s[i + j - 1] = p[j]

StartsWith(s, p) == StartsWithAt(s, 1, p)

Drop(s, n) == SubSeq(s, n + 1, Len(s))

\* sub in s
Contains(s, sub) == \E i \in 1..(Len(s) - Len(sub) + 1) : StartsWithAt(s, i, sub)

\* s.count(sub) from position i on: occurrences that do not overlap, left to right
RECURSIVE CountFrom(_, _, _)
CountFrom(s, i, sub) ==
    IF i + Len(sub) - 1 > Len(s) THEN 0
    ELSE IF StartsWithAt(s, i, sub) THEN 1 + CountFrom(s, i + Len(sub), sub)
    ELSE CountFrom(s, i + 1, sub)

\* s.count(sub), for a sub that is not empty
CountSub(s, sub) == CountFrom(s, 1, sub)

Whitespace == {" ", "\n", "\t", "\r"}

\* the first and the last position of s that hold no whitespace
FirstNonSpace(s) ==
    IF \A i \in 1..Len(s) : s[i] \in Whitespace THEN Len(s) + 1
    ELSE CHOOSE i \in 1..Len(s) :
             s[i] \notin Whitespace /\ \A j \in 1..(i - 1) : s[j] \in Whitespace

LastNonSpace(s) ==
    IF \A i \in 1..Len(s) : s[i] \in Whitespace THEN 0
    ELSE CHOOSE i \in 1..Len(s) :
             s[i] \notin Whitespace /\ \A j \in (i + 1)..Len(s) : s[j] \in Whitespace

\* s.strip()
Strip(s) == SubSeq(s, FirstNonSpace(s), LastNonSpace(s))

Upper == <<"A", "B", "C", "D", "E", "F", "G", "H", "I", "J", "K", "L", "M",
           "N", "O", "P", "Q", "R", "S", "T", "U", "V", "W", "X", "Y", "Z">>

LowerLetters == <<"a", "b", "c", "d", "e", "f", "g", "h", "i", "j", "k", "l", "m",
                  "n", "o", "p", "q", "r", "s", "t", "u", "v", "w", "x", "y", "z">>

Digits == {"0", "1", "2", "3", "4", "5", "6", "7", "8", "9"}

UpperSet == {Upper[i] : i \in 1..26}

LetterSet == UpperSet \cup {LowerLetters[i] : i \in 1..26}

ToLower == [c \in UpperSet |-> LowerLetters[CHOOSE i \in 1..26 : Upper[i] = c]]

LowerChar(c) == IF c \in UpperSet THEN ToLower[c] ELSE c

\* s.lower()
Lower(s) == [i \in 1..Len(s) |-> LowerChar(s[i])]

\* the characters the regular expression class \w matches
IsWordChar(c) == c \in Digits \/ c = "_" \/ c \in LetterSet

\* sum(c.isdigit() for c in s)
NumDigits(s) == Cardinality({i \in 1..Len(s) : s[i] \in Digits})

\* the positions that end a part of s: those of its separator characters (the
\* positions seps), and the one after its end
Cuts(s, seps) == seps \cup {Len(s) + 1}

NextCut(cuts, i) == CHOOSE c \in cuts : c >= i /\ \A d \in cuts : d >= i => c <= d

\* the parts of s between separator characters from position i on, empty ones
\* included
RECURSIVE PartsFrom(_, _, _)
PartsFrom(s, cuts, i) ==
    LET c == NextCut(cuts, i)
    IN  IF c > Len(s) THEN <<SubSeq(s, i, Len(s))>>
        ELSE <<SubSeq(s, i, c - 1)>> \o PartsFrom(s, cuts, c + 1)

\* s.split(sep) for a one-character sep
Split(s, sep) == PartsFrom(s, Cuts(s, {i \in 1..Len(s) : s[i] = sep}), 1)

SelectNonEmpty(parts) == SelectSeq(parts, LAMBDA w : w # <<>>)

\* re.findall(r"\w+", s): the maximal runs of word characters
FindWords(s) ==
    SelectNonEmpty(PartsFrom(s, Cuts(s, {i \in 1..Len(s) : ~IsWordChar(s[i])}), 1))

Lens(parts) == {Len(parts[i]) : i \in 1..Len(parts)}

\* min(..., default=0) and max(..., default=0) over the lengths of the parts
MinLen(parts) ==
    IF parts = <<>> THEN 0 ELSE CHOOSE n \in Lens(parts) : \A m \in Lens(parts) : n <= m

MaxLenOf(parts) ==
    IF parts = <<>> THEN 0 ELSE CHOOSE n \in Lens(parts) : \A m \in Lens(parts) : n >= m

RECURSIVE SumLen(_)
SumLen(parts) == IF parts = <<>> THEN 0 ELSE Len(Head(parts)) + SumLen(Tail(parts))

\* a / b as the code guards it (0 when the denominator is empty), in hundredths
Ratio(a, b) == IF b = 0 THEN 0 ELSE (a * 100) \div b

\* int(bool)
Int01(b) == IF b THEN 1 ELSE 0

\* n characters of the class cls in a row somewhere in s
HasRun(s, cls, n) ==
    \E i \in 1..(Len(s) - n + 1) : \A j \in 0..(n - 1) : s[i + j] \in cls

(***************************************************************************)
(* Python dict operations                                                  *)
(***************************************************************************)
Keys(d) == [i \in 1..Len(d) |-> d[i][1]]

KeySet(d) == {d[i][1] : i \in 1..Len(d)}

Has(d, k) == k \in KeySet(d)

Get(d, k) == d[CHOOSE i \in 1..Len(d) : d[i][1] = k][2]

\* d[k] = v: a new key goes last, a key already there keeps its place
Put(d, k, v) ==
    IF Has(d, k)
    THEN [i \in 1..Len(d) |-> IF d[i][1] = k THEN <<k, v>> ELSE d[i]]
    ELSE Append(d, <<k, v>>)

\* d.get(k, default)
GetOr(d, k, default) == IF Has(d, k) THEN Get(d, k) ELSE default

\* {**a, **b}: the keys of a in their places, with b's values where b has the key,
\* then the keys only b has, in b's order
Merge(a, b) ==
    [i \in 1..Len(a) |-> IF Has(b, a[i][1]) THEN <<a[i][1], Get(b, a[i][1])>> ELSE a[i]]
    \o SelectSeq(b, LAMBDA kv : ~Has(a, kv[1]))

(***************************************************************************)
(* The inputs: lines of the list files, and what the collaborators answer  *)
(* while a line's URL is processed                                         *)
(***************************************************************************)
LineExample == <<"e", "x", "a", "m", "p", "l", "e", ".", "c", "o", "m", "/", "l", "o", "g",
                 "i", "n", "\n">>

LineBlank == <<"\n">>

LineBracket == <<" ", "[", "\n">>

LineIp == <<"h", "t", "t", "p", ":", "/", "/", "1", "9", "2", ".", "1", "6", "8", ".", "1",
            ".", "1", "/", "l", "o", "g", "i", "n", "\n">>

LinePaypal == <<"w", "w", "w", "2", ".", "p", "a", "y", "p", "a", "l", "-", "s", "e", "c",
                "u", "r", "e", ".", "t", "k", "/", "a", ".", "e", "x", "e", "\n">>

Raise == [kind |-> "raise"]

\* the server accepts the connection and never answers
Silent == [kind |-> "silent"]

NotRedirected == [kind |-> "response", history |-> 0, url |-> <<>>]

RedirectedAway ==
    [kind |-> "response", history |-> 1,
     url |-> <<"h", "t", "t", "p", "s", ":", "/", "/", "b", "i", "t", ".", "l", "y", "/",
               "x">>]

NoTitle == [kind |-> "none"]

PagePlain ==
    [kind |-> "response", html |-> <<>>, text |-> <<>>, title |-> NoTitle,
     links |-> <<>>, stylesheets |-> <<>>, link_tags |-> <<>>, media |-> <<>>,
     forms |-> <<>>, iframes |-> <<>>, favicons |-> <<>>]

PagePhish ==
    [kind |-> "response",
     html |-> <<"w", "i", "n", "d", "o", "w", ".", "o", "p", "e", "n", " ", "o", "n", "m",
                "o", "u", "s", "e", "d", "o", "w", "n", " ", "l", "o", "c", "a", "t", "i",
                "o", "n", ".", "h", "r", "e", "f", " ", "w", "i", "n", "d", "o", "w", ".",
                "a", "l", "e", "r", "t">>,
     text |-> <<"E", "x", "a", "m", "p", "l", "e", " ", "I", "n", "c">>,
     title |-> [kind |-> "text", string |-> <<" ", "e", "x", "a", "m", "p", "l", "e", " ">>],
     links |-> <<<<"#", "t", "o", "p">>,
                 <<"m", "a", "i", "l", "t", "o", ":", "a">>,
                 <<"/", "e", "x", "a", "m", "p", "l", "e", "/", "h", "o", "m", "e">>,
                 <<"h", "t", "t", "p", ":", "/", "/", "e", "v", "i", "l", ".", "t", "k">>>>,
     stylesheets |-> <<<<"e", "v", "i", "l", ".", "c", "s", "s">>>>,
     link_tags |-> <<<<"e", "v", "i", "l", ".", "c", "s", "s">>,
                     <<"e", "x", "a", "m", "p", "l", "e", ".", "i", "c", "o">>>>,
     media |-> <<<<"e", "v", "i", "l", ".", "p", "n", "g">>, <<>>>>,
     forms |-> <<<<"L", "o", "g", "i", "n", ".", "p", "h", "p">>, <<>>,
                 <<"m", "a", "i", "l", "t", "o", ":", "x">>>>,
     iframes |-> <<<<"d", "i", "s", "p", "l", "a", "y", ":", "n", "o", "n", "e">>>>,
     favicons |-> <<<<"e", "x", "a", "m", "p", "l", "e", ".", "i", "c", "o">>>>]

\* a <title></title>: soup.title is there and its .string is None
PageEmptyTitle == [PagePlain EXCEPT !.title = [kind |-> "nostring"]]

NoDate == [kind |-> "none"]

Date(day) == [kind |-> "date", day |-> day]

WhoisFree ==
    [kind |-> "record", domain_name |-> None, creation_date |-> NoDate,
     expiration_date |-> NoDate]

WhoisRegistered ==
    [kind |-> "record", domain_name |-> "EXAMPLE.COM", creation_date |-> Date(19000),
     expiration_date |-> Date(20460)]

WhoisOddDates ==
    [kind |-> "record", domain_name |-> "EXAMPLE.COM",
     creation_date |-> [kind |-> "list", items |-> <<Date(19635), Date(19000)>>],
     expiration_date |-> [kind |-> "str"]]

Indexed == [kind |-> "response", text |-> <<"A", "b", "o", "u", "t", " ", "5", " ", "r",
                                            "e", "s", "u", "l", "t", "s">>]

NotIndexed ==
    [kind |-> "response",
     text |-> <<"Y", "o", "u", "r", " ", "s", "e", "a", "r", "c", "h", " ", "d", "i", "d",
                " ", "n", "o", "t", " ", "m", "a", "t", "c", "h", " ", "a", "n", "y", " ",
                "d", "o", "c", "u", "m", "e", "n", "t", "s">>]

Ranked == [kind |-> "response", status_code |-> 200, json |-> "rank", rank |-> 5]

Unranked == [kind |-> "response", status_code |-> 200, json |-> "norank"]

Malformed == [kind |-> "response", status_code |-> 200, json |-> "malformed"]

Forbidden == [kind |-> "response", status_code |-> 403, json |-> "none"]

KnownIps == [kind |-> "lines", lines |-> <<<<"1", "9", "2", ".", "1", "6", "8", ".", "1",
                                             ".", "1">>>>]

Unreadable == [kind |-> "unreadable"]

\* the answers by name: a line of a list file carries the names
Answer(name) ==
    CASE name = "Raise" -> Raise
      [] name = "Silent" -> Silent
      [] name = "NotRedirected" -> NotRedirected
      [] name = "RedirectedAway" -> RedirectedAway
      [] name = "PagePlain" -> PagePlain
      [] name = "PagePhish" -> PagePhish
      [] name = "PageEmptyTitle" -> PageEmptyTitle
      [] name = "WhoisFree" -> WhoisFree
      [] name = "WhoisRegistered" -> WhoisRegistered
      [] name = "WhoisOddDates" -> WhoisOddDates
      [] name = "Indexed" -> Indexed
      [] name = "NotIndexed" -> NotIndexed
      [] name = "Ranked" -> Ranked
      [] name = "Unranked" -> Unranked
      [] name = "Malformed" -> Malformed
      [] name = "Forbidden" -> Forbidden
      [] name = "KnownIps" -> KnownIps
      [] name = "Unreadable" -> Unreadable

(***************************************************************************)
(* Library calls the extractor makes, by what they answer for the URLs     *)
(* used here (urllib.parse, tldextract, socket, requests)                  *)
(***************************************************************************)
HttpPrefix == <<"h", "t", "t", "p", ":", "/", "/">>

HttpsPrefix == <<"h", "t", "t", "p", "s", ":", "/", "/">>

\* the index of the first character of s that is in stops, Len(s) + 1 if none
FirstOf(s, stops) ==
    IF \E i \in 1..Len(s) : s[i] \in stops
    THEN CHOOSE i \in 1..Len(s) : s[i] \in stops /\ \A j \in 1..(i - 1) : s[j] \notin stops
    ELSE Len(s) + 1

LastIndexOf(s, c) ==
    IF \E i \in 1..Len(s) : s[i] = c
    THEN CHOOSE i \in 1..Len(s) : s[i] = c /\ \A j \in (i + 1)..Len(s) : s[j] # c
    ELSE 0

\* what follows "scheme://" in a normalized URL
AfterScheme(url0) ==
    IF StartsWith(url0, HttpsPrefix) THEN Drop(url0, Len(HttpsPrefix))
    ELSE Drop(url0, Len(HttpPrefix))

Netloc(url0) ==
    LET rest == AfterScheme(url0)
    IN  SubSeq(rest, 1, FirstOf(rest, {"/", "?", "#"}) - 1)

UrlPath(url0) ==
    LET rest == AfterScheme(url0)
        from == Drop(rest, FirstOf(rest, {"/", "?", "#"}) - 1)
    IN  SubSeq(from, 1, FirstOf(from, {"?", "#"}) - 1)

\* netloc without userinfo and port, lower-cased
HostOf(netloc) ==
    LET hostinfo == Drop(netloc, LastIndexOf(netloc, "@"))
    IN  Lower(SubSeq(hostinfo, 1, FirstOf(hostinfo, {":"}) - 1))

\* parsed.hostname is None
NoHostname == <<None>>

\* urlparse(url): ValueError on an unbalanced bracket in the netloc; hostname is
\* None when the netloc names no host
HasChar(s, c) == \E i \in 1..Len(s) : s[i] = c

ParsedNetloc(url0, netloc, host) ==
    IF HasChar(netloc, "[") # HasChar(netloc, "]")
    THEN [exc |-> "Invalid IPv6 URL"]
    ELSE [exc |-> None, path |-> UrlPath(url0),
          hostname |-> IF host = <<>> THEN NoHostname ELSE host]

urlparse(url0) == ParsedNetloc(url0, Netloc(url0), HostOf(Netloc(url0)))

IsNumber(w) == w # <<>> /\ \A i \in 1..Len(w) : w[i] \in Digits

\* socket.inet_aton(hostname) succeeds: one to four numeric parts
inet_aton_ok(hostname) ==
    LET parts == Split(hostname, ".")
    IN  Len(parts) <= 4 /\ \A i \in 1..Len(parts) : IsNumber(parts[i])

\* re.search(r"\d+\.\d+\.\d+\.\d+", hostname)
SearchDottedQuad(hostname) ==
    LET parts == Split(hostname, ".")
    IN  \E i \in 1..(Len(parts) - 3) :
            /\ parts[i] # <<>> /\ parts[i][Len(parts[i])] \in Digits
            /\ IsNumber(parts[i + 1])
            /\ IsNumber(parts[i + 2])
            /\ parts[i + 3] # <<>> /\ parts[i + 3][1] \in Digits

\* re.match(r"w[w\d]{1,}\d+", s)
MatchAbnormalSubdomain(s) ==
    /\ Len(s) >= 3
    /\ s[1] = "w"
    /\ \E j \in 3..Len(s) :
           /\ s[j] \in Digits
           /\ \A i \in 2..(j - 1) : s[i] \in Digits \cup {"w"}

\* the public suffixes of the hosts used here
Suffixes == {<<"c", "o", "m">>, <<"t", "k">>, <<"l", "y">>}

RECURSIVE Join(_, _)
Join(parts, sep) ==
    IF parts = <<>> THEN <<>>
    ELSE IF Len(parts) = 1 THEN parts[1]
    ELSE parts[1] \o <<sep>> \o Join(Tail(parts), sep)

\* tldextract.extract(url): subdomain, domain, suffix and registered_domain
\* of the URL's host; an IPv4 address is all domain
ExtractResult(sub, domain, suffix) ==
    [subdomain |-> sub, domain |-> domain, suffix |-> suffix,
     registered_domain |-> IF domain # <<>> /\ suffix # <<>>
                           THEN domain \o <<".">> \o suffix ELSE <<>>]

IsIpLabels(labels) == Len(labels) = 4 /\ \A i \in 1..4 : IsNumber(labels[i])

ExtractLabels(host, labels, n) ==
    IF IsIpLabels(labels) THEN ExtractResult(<<>>, host, <<>>)
    ELSE IF n >= 1 /\ labels[n] \in Suffixes
    THEN ExtractResult(Join(SubSeq(labels, 1, n - 2), "."),
                       IF n >= 2 THEN labels[n - 1] ELSE <<>>, labels[n])
    ELSE ExtractResult(Join(SubSeq(labels, 1, n - 1), "."),
                       IF n >= 1 THEN labels[n] ELSE <<>>, <<>>)

ExtractHost(host, labels) == ExtractLabels(host, labels, Len(labels))

tldextract(url0) ==
    ExtractHost(HostOf(Netloc(url0)),
                IF HostOf(Netloc(url0)) = <<>> THEN <<>> ELSE Split(HostOf(Netloc(url0)), "."))

\* no timeout= argument at the call
NoTimeout == "None"

\* requests.get(url, timeout=...) against a server that answers as `answer` says:
\* the response, an exception, or a call that never returns
Respond(parsed, answer, timeout) ==
    IF parsed.exc # None \/ parsed.hostname = NoHostname
    THEN [kind |-> "raise", exc |-> "InvalidURL"]
    ELSE IF answer.kind = "raise" THEN [kind |-> "raise", exc |-> "ConnectionError"]
    ELSE IF answer.kind = "silent"
    THEN (IF timeout = NoTimeout THEN [kind |-> "blocked"]
          ELSE [kind |-> "raise", exc |-> "ReadTimeout"])
    ELSE answer

requests_get(url0, answer, timeout) == Respond(urlparse(url0), answer, timeout)

\* an I/O request as the trace of a URL's processing records it
IoEvent(op, what, timeout) == [op |-> op, what |-> what, timeout |-> timeout]

(***************************************************************************)
(* normalize_url and check_redirects                                       *)
(***************************************************************************)
normalize_url(url0) ==
    IF StartsWith(url0, HttpPrefix) \/ StartsWith(url0, HttpsPrefix) THEN url0
    ELSE HttpsPrefix \o url0

\* the URL a redirect answer ends at: the requested one or another site
FinalUrl(url0, response) == IF response.url = <<>> THEN url0 ELSE response.url

\* check_redirects(url): the dict it returns, what it logs and its requests
check_redirects(url0, world) ==
    With(normalize_url(url0), LAMBDA url1 :
    With(requests_get(url1, Answer(world.redirect), "10"), LAMBDA response :
    With(<<IoEvent("GET", "redirect", "10")>>, LAMBDA events :
        IF response.kind = "raise"
        THEN [ret |-> <<<<"f38_redirect_count", 0>>, <<"f39_external_redirect", 0>>,
                        <<"redirect_error", response.exc>>>>,
              log |-> <<<<"ERROR", "check_redirects error">>>>, io |-> events]
        ELSE LET original_domain == tldextract(url1).registered_domain
                 final_domain == tldextract(FinalUrl(url1, response)).registered_domain
                 redirected == response.history > 0
                 external_redirect == redirected /\ original_domain # final_domain
             IN  [ret |-> <<<<"f38_redirect_count", response.history>>,
                            <<"f39_external_redirect", Int01(external_redirect)>>>>,
                  log |-> <<>>, io |-> events])))

(***************************************************************************)
(* extract_url_features                                                    *)
(***************************************************************************)
shortening_services ==
    <<<<"b", "i", "t", ".", "l", "y">>,
      <<"t", "i", "n", "y", "u", "r", "l", ".", "c", "o", "m">>,
      <<"g", "o", "o", ".", "g", "l">>,
      <<"o", "w", ".", "l", "y">>,
      <<"i", "s", ".", "g", "d">>,
      <<"b", "u", "f", "f", ".", "l", "y">>,
      <<"t", ".", "c", "o">>>>

suspicious_extensions ==
    <<<<".", "t", "x", "t">>, <<".", "e", "x", "e">>, <<".", "j", "s">>>>

hints ==
    <<<<"v", "e", "r", "i", "f", "y">>,
      <<"u", "p", "d", "a", "t", "e">>,
      <<"a", "c", "c", "o", "u", "n", "t">>,
      <<"s", "e", "c", "u", "r", "e">>,
      <<"b", "a", "n", "k">>,
      <<"s", "i", "g", "n", "i", "n">>,
      <<"l", "o", "g", "i", "n">>>>

brand_list ==
    <<<<"p", "a", "y", "p", "a", "l">>,
      <<"a", "p", "p", "l", "e">>,
      <<"a", "m", "a", "z", "o", "n">>,
      <<"f", "a", "c", "e", "b", "o", "o", "k">>,
      <<"g", "o", "o", "g", "l", "e">>,
      <<"n", "e", "t", "f", "l", "i", "x">>>>

suspicious_tlds ==
    <<<<"t", "k">>, <<"m", "l">>, <<"g", "a">>, <<"c", "f">>, <<"g", "q">>, <<"c", "n">>,
      <<"r", "u">>>>

Consonants ==
    {"b", "c", "d", "f", "g", "h", "j", "k", "l", "m", "n",
     "p", "q", "r", "s", "t", "v", "w", "x", "y", "z"}

\* any(p in s for p in patterns)
AnyIn(patterns, s) == \E i \in 1..Len(patterns) : Contains(s, patterns[i])

\* sum(p in s for p in patterns)
CountIn(patterns, s) == Cardinality({i \in 1..Len(patterns) : Contains(s, patterns[i])})

\* max((s.count(c) for c in set(s)), default=0)
CharRepeat(s) ==
    LET counts == {CountSub(s, <<s[i]>>) : i \in 1..Len(s)}
    IN  IF s = <<>> THEN 0 ELSE CHOOSE n \in counts : \A m \in counts : n >= m

\* lines 164-170: the read of PhishingLink/knownip.txt
known_malicious_ip(hostname, world) ==
    LET file == Answer(world.knownip)
    IN  IF file.kind = "unreadable"
        THEN [value |-> 0, log |-> <<<<"ERROR", "Error reading known IPs">>>>]
        ELSE LET known_malicious_ips ==
                     SelectNonEmpty([i \in 1..Len(file.lines) |-> Strip(file.lines[i])])
             IN  [value |-> Int01(\E i \in 1..Len(known_malicious_ips) :
                                      known_malicious_ips[i] = hostname),
                  log |-> <<>>]

\* lines 66-127: the features computed before the redirect request
FeaturesBeforeRedirect(full_url, hostname, parsed, ext) ==
    LET tld == ext.suffix
    IN  <<<<"url_length", full_url>>,
          <<"f1_url_length", Len(full_url)>>,
          <<"f2_hostname_length", Len(hostname)>>,
          <<"f3_ip_in_url", IF inet_aton_ok(hostname) THEN 1
                            ELSE Int01(SearchDottedQuad(hostname))>>,
          <<"f4_count_'.'", CountSub(full_url, <<".">>)>>,
          <<"f5_count_'-'", CountSub(full_url, <<"-">>)>>,
          <<"f6_count_'@'", CountSub(full_url, <<"@">>)>>,
          <<"f7_count_'?'", CountSub(full_url, <<"?">>)>>,
          <<"f8_count_'&'", CountSub(full_url, <<"&">>)>>,
          <<"f9_count_'|'", CountSub(full_url, <<"|">>)>>,
          <<"f10_count_'='", CountSub(full_url, <<"=">>)>>,
          <<"f11_count_'_'", CountSub(full_url, <<"_">>)>>,
          <<"f12_count_'~'", CountSub(full_url, <<"~">>)>>,
          <<"f13_count_'%'", CountSub(full_url, <<"%">>)>>,
          <<"f14_count_'/'", CountSub(full_url, <<"/">>)>>,
          <<"f15_count_'*'", CountSub(full_url, <<"*">>)>>,
          <<"f16_count_':'", CountSub(full_url, <<":">>)>>,
          <<"f17_count_','", CountSub(full_url, <<",">>)>>,
          <<"f18_count_';'", CountSub(full_url, <<";">>)>>,
          <<"f19_count_'$'", CountSub(full_url, <<"$">>)>>,
          <<"f20_count_' '", CountSub(full_url, <<" ">>)>>,
          <<"f21_www_count", CountSub(Lower(full_url), <<"w", "w", "w">>)>>,
          <<"f22_com_count", CountSub(Lower(full_url), <<".", "c", "o", "m">>)>>,
          <<"f23_http_count", CountSub(Lower(full_url), HttpPrefix)>>,
          <<"f24_double_slash", CountSub(full_url, <<"/", "/">>)>>,
          <<"f25_https", Int01(StartsWith(full_url, HttpsPrefix))>>,
          <<"f26_digit_ratio_url", Ratio(NumDigits(full_url), Len(full_url))>>,
          <<"f27_digit_ratio_host", Ratio(NumDigits(hostname), Len(hostname))>>,
          <<"f28_punycode", Int01(Contains(hostname, <<"x", "n", "-", "-">>))>>,
          <<"f29_port_in_url", Int01(Contains(hostname, <<":">>))>>,
          <<"f30_tld_in_path", Int01(Contains(parsed.path, tld))>>,
          <<"f31_tld_in_subdomain", Int01(Contains(ext.subdomain, tld))>>,
          <<"f32_abnormal_subdomain", Int01(MatchAbnormalSubdomain(ext.subdomain))>>,
          <<"f33_num_subdomains", IF ext.subdomain # <<>>
                                  THEN Len(Split(ext.subdomain, ".")) ELSE 0>>,
          <<"f34_prefix_suffix", Int01(Contains(ext.domain, <<"-">>))>>,
          <<"f35_random_domain", Int01(HasRun(Lower(ext.domain), Consonants, 4))>>,
          <<"f36_shortening_service", Int01(AnyIn(shortening_services, hostname))>>,
          <<"f37_suspicious_extension",
            Int01(AnyIn(suspicious_extensions, Lower(parsed.path)))>>>>

\* lines 134-161: the features computed after the redirect request
FeaturesAfterRedirect(full_url, hostname, parsed, ext) ==
    LET words == FindWords(full_url)
        host_words == Split(hostname, ".")
        path_words == SelectNonEmpty(Split(parsed.path, "/"))
    IN  <<<<"f40_word_count", Len(words)>>,
          <<"f41_char_repeat", CharRepeat(full_url)>>,
          <<"f42_shortest_word_url", MinLen(words)>>,
          <<"f43_shortest_word_host", MinLen(host_words)>>,
          <<"f44_shortest_word_path", MinLen(path_words)>>,
          <<"f45_longest_word_url", MaxLenOf(words)>>,
          <<"f46_longest_word_host", MaxLenOf(host_words)>>,
          <<"f47_longest_word_path", MaxLenOf(path_words)>>,
          <<"f48_avg_word_url", Ratio(SumLen(words), Len(words))>>,
          <<"f49_avg_word_host", IF hostname # <<>>
                                 THEN Ratio(SumLen(host_words), Len(host_words)) ELSE 0>>,
          <<"f50_avg_word_path", Ratio(SumLen(path_words), Len(path_words))>>,
          <<"f51_phish_hints", CountIn(hints, Lower(full_url))>>,
          <<"f52_brand_in_domain", Int01(AnyIn(brand_list, ext.domain))>>,
          <<"f53_brand_in_subdomain", Int01(AnyIn(brand_list, ext.subdomain))>>,
          <<"f54_brand_in_path", Int01(AnyIn(brand_list, parsed.path))>>,
          <<"f55_suspicious_tld",
            Int01(\E i \in 1..Len(suspicious_tlds) : suspicious_tlds[i] = ext.suffix)>>>>

\* extract_url_features(url): the dict it returns or the exception it raises, what
\* it logs, and the requests it makes in the order it makes them
extract_url_features(url0, world) ==
    With(normalize_url(url0), LAMBDA url1 :
    With(urlparse(url1), LAMBDA parsed :
        IF parsed.exc # None
        THEN [exc |-> parsed.exc, blocked |-> FALSE, ret |-> <<>>, log |-> <<>>, io |-> <<>>]
        ELSE
    With(tldextract(url1), LAMBDA ext :
    With(IF parsed.hostname # NoHostname THEN parsed.hostname ELSE <<>>, LAMBDA hostname :
    With(check_redirects(url1, world), LAMBDA redirect_info :
    With(known_malicious_ip(hostname, world), LAMBDA known :
        [exc |-> None, blocked |-> FALSE,
         ret |-> FeaturesBeforeRedirect(url1, hostname, parsed, ext)
                 \o <<<<"f38_redirect_count",
                        GetOr(redirect_info.ret, "f38_redirect_count", 0)>>,
                      <<"f39_external_redirect",
                        GetOr(redirect_info.ret, "f39_external_redirect", 0)>>>>
                 \o FeaturesAfterRedirect(url1, hostname, parsed, ext)
                 \o <<<<"f56_known_malicious_ip", known.value>>>>,
         log |-> redirect_info.log \o known.log,
         io |-> redirect_info.io \o <<IoEvent("OPEN", "knownip.txt", NoTimeout)>>]))))))

(***************************************************************************)
(* extract_full_feature_set                                                *)
(***************************************************************************)
\* sum(1 for x in xs if P(x))
CountWhere(xs, P(_)) == Cardinality({i \in 1..Len(xs) : P(xs[i])})

\* lines 189-199: the class of one anchor's href
LinkClass(href, domain) ==
    IF StartsWith(href, <<"#">>) \/ Contains(href, <<"v", "o", "i", "d">>) THEN "null"
    ELSE IF \/ Contains(href, <<"j", "a", "v", "a", "s", "c", "r", "i", "p", "t">>)
            \/ Contains(href, <<"m", "a", "i", "l", "t", "o", ":">>)
    THEN "safe"
    ELSE IF Contains(href, domain) THEN "internal"
    ELSE "external"

login_keywords ==
    <<<<"l", "o", "g", "i", "n">>, <<"s", "i", "g", "n", "i", "n">>,
      <<"v", "e", "r", "i", "f", "y">>>>

\* a failure path that leaves out the last feature
DefaultsWithoutCopyright ==
    <<<<"f57_total_links", 0>>,
      <<"f58_ratio_internal_links", 0>>,
      <<"f59_ratio_external_links", 0>>,
      <<"f60_ratio_null_links", 0>>,
      <<"f61_external_css", 0>>,
      <<"f62_internal_redirects", 0>>,
      <<"f63_external_redirects", 0>>,
      <<"f64_internal_errors", 0>>,
      <<"f65_external_errors", 0>>,
      <<"f66_login_forms", 0>>,
      <<"f67_external_favicon", 0>>,
      <<"f68_links_in_tags", 0>>,
      <<"f69_submit_to_email", 0>>,
      <<"f70_internal_media", 0>>,
      <<"f71_external_media", 0>>,
      <<"f72_empty_forms", 0>>,
      <<"f73_invisible_iframes", 0>>,
      <<"f74_popups", 0>>,
      <<"f75_safe_anchors", 0>>,
      <<"f76_disable_right_click", 0>>,
      <<"f77_onmouseover_rightclick", 0>>,
      <<"f78_empty_title", 0>>,
      <<"f79_domain_in_title", 0>>,
      <<"error", TRUE>>>>

\* lines 260-286: the dict of the failure path
FullFeatureDefaults ==
    <<<<"f57_total_links", 0>>,
      <<"f58_ratio_internal_links", 0>>,
      <<"f59_ratio_external_links", 0>>,
      <<"f60_ratio_null_links", 0>>,
      <<"f61_external_css", 0>>,
      <<"f62_internal_redirects", 0>>,
      <<"f63_external_redirects", 0>>,
      <<"f64_internal_errors", 0>>,
      <<"f65_external_errors", 0>>,
      <<"f66_login_forms", 0>>,
      <<"f67_external_favicon", 0>>,
      <<"f68_links_in_tags", 0>>,
      <<"f69_submit_to_email", 0>>,
      <<"f70_internal_media", 0>>,
      <<"f71_external_media", 0>>,
      <<"f72_empty_forms", 0>>,
      <<"f73_invisible_iframes", 0>>,
      <<"f74_popups", 0>>,
      <<"f75_safe_anchors", 0>>,
      <<"f76_disable_right_click", 0>>,
      <<"f77_onmouseover_rightclick", 0>>,
      <<"f78_empty_title", 0>>,
      <<"f79_domain_in_title", 0>>,
      <<"f80_domain_in_copyright", 0>>,
      <<"error", TRUE>>>>

\* lines 178-256: the dict of the success path, from the response's markup (html)
\* and what the parser finds in it
FullFeaturesOf(response, domain) ==
    LET html == response.html
        links == response.links
        total_links == Len(links)
        null_links == CountWhere(links, LAMBDA h : LinkClass(h, domain) = "null")
        safe_anchors == CountWhere(links, LAMBDA h : LinkClass(h, domain) \in {"null", "safe"})
        internal_links == CountWhere(links, LAMBDA h : LinkClass(h, domain) = "internal")
        external_links == CountWhere(links, LAMBDA h : LinkClass(h, domain) = "external")
        internal_redirects ==
            CountSub(html, <<"l", "o", "c", "a", "t", "i", "o", "n", ".", "h", "r", "e", "f">>)
            + CountSub(html, <<"w", "i", "n", "d", "o", "w", ".", "l", "o", "c", "a",
                               "t", "i", "o", "n">>)
        external_redirects == CountSub(html, <<"w", "i", "n", "d", "o", "w", ".",
                                               "o", "p", "e", "n">>)
        external_css == CountWhere(response.stylesheets, LAMBDA h : ~Contains(h, domain))
        link_tags == response.link_tags
        links_in_tags == CountWhere(link_tags, LAMBDA h : Contains(h, domain))
        media_tags == response.media
        internal_media == CountWhere(media_tags, LAMBDA m : Contains(m, domain))
        external_media == Len(media_tags) - internal_media
        login_forms == CountWhere(response.forms, LAMBDA a : AnyIn(login_keywords, Lower(a)))
        empty_forms == CountWhere(response.forms,
                           LAMBDA a : a = <<>> \/ a = <<"a", "b", "o", "u", "t", ":",
                                                        "b", "l", "a", "n", "k">>)
        submit_to_email == CountWhere(response.forms,
                               LAMBDA a : Contains(a, <<"m", "a", "i", "l", "t", "o", ":">>))
        title == IF response.title.kind = "none" THEN <<>> ELSE Strip(response.title.string)
        invisible_iframes ==
            CountWhere(response.iframes,
                LAMBDA st : \/ Contains(st, <<"d", "i", "s", "p", "l", "a", "y", ":",
                                              "n", "o", "n", "e">>)
                            \/ Contains(st, <<"v", "i", "s", "i", "b", "i", "l", "i",
                                              "t", "y", ":", "h", "i", "d", "d", "e",
                                              "n">>))
        external_favicon == CountWhere(response.favicons, LAMBDA h : ~Contains(h, domain))
    IN  <<<<"f57_total_links", total_links>>,
          <<"f58_ratio_internal_links", Ratio(internal_links, total_links)>>,
          <<"f59_ratio_external_links", Ratio(external_links, total_links)>>,
          <<"f60_ratio_null_links", Ratio(null_links, total_links)>>,
          <<"f61_external_css", external_css>>,
          <<"f62_internal_redirects", internal_redirects>>,
          <<"f63_external_redirects", external_redirects>>,
          <<"f64_internal_errors", 0>>,
          <<"f65_external_errors", 0>>,
          <<"f66_login_forms", login_forms>>,
          <<"f67_external_favicon", Int01(external_favicon > 0)>>,
          <<"f68_links_in_tags", Ratio(links_in_tags, Len(link_tags))>>,
          <<"f69_submit_to_email", submit_to_email>>,
          <<"f70_internal_media", internal_media>>,
          <<"f71_external_media", external_media>>,
          <<"f72_empty_forms", empty_forms>>,
          <<"f73_invisible_iframes", invisible_iframes>>,
          <<"f74_popups", CountSub(html, <<"w", "i", "n", "d", "o", "w", ".", "a",
                                           "l", "e", "r", "t">>)>>,
          <<"f75_safe_anchors", safe_anchors>>,
          <<"f76_disable_right_click", Int01(Contains(html, <<"o", "n", "m", "o",
                                                              "u", "s", "e", "d",
                                                              "o", "w", "n">>))>>,
          <<"f77_onmouseover_rightclick",
            Int01(Contains(html, <<"e", "v", "e", "n", "t", ".", "b", "u", "t", "t",
                                   "o", "n", "=", "=", "2">>))>>,
          <<"f78_empty_title", Int01(title = <<>>)>>,
          <<"f79_domain_in_title", Int01(Contains(title, domain))>>,
          <<"f80_domain_in_copyright", Int01(Contains(Lower(response.text), domain))>>,
          <<"error", FALSE>>>>

\* the try body raises: the request fails, or soup.title.string is None (a <title>
\* without text) and .strip() is called on it
FullFeatureRaises(response) ==
    \/ response.kind = "raise"
    \/ response.kind = "response" /\ response.title.kind = "nostring"

\* extract_full_feature_set(url)
FullFeatureSetFrom(url1, response, events) ==
    IF FullFeatureRaises(response)
    THEN [exc |-> None, blocked |-> FALSE, ret |-> FullFeatureDefaults,
          log |-> <<<<"ERROR", "Error processing full features">>>>, io |-> events]
    ELSE [exc |-> None, blocked |-> FALSE,
          ret |-> FullFeaturesOf(response, tldextract(url1).domain),
          log |-> <<>>, io |-> events]

extract_full_feature_set(url0, world) ==
    FullFeatureSetFrom(normalize_url(url0),
                       requests_get(normalize_url(url0), Answer(world.page), "10"),
                       <<IoEvent("GET", "content", "10")>>)

(***************************************************************************)
(* extract_external_features                                               *)
(***************************************************************************)
\* datetime.datetime.now(), as a day number
Now == 20000

\* a WHOIS date field: a list stands for its first element (lines 305-308, 316-317)
FirstDate(d) == IF d.kind = "list" THEN d.items[1] ELSE d

\* round(x / 365, 2) for a number of days x, in hundredths
RoundYears(days) == (200 * days + 365) \div 730

\* lines 296-300
whois_registered(w) ==
    IF w.kind = "raise" THEN 0 ELSE Int01(w.domain_name # None)

\* lines 302-312: w is unbound when the lookup raised, and a date that is a str
\* cannot be subtracted; both raise inside the try
registration_years(w) ==
    IF w.kind = "raise" THEN 0
    ELSE LET expiration == FirstDate(w.expiration_date)
             creation == FirstDate(w.creation_date)
         IN  IF expiration.kind = "none" \/ creation.kind = "none" THEN 0
             ELSE IF expiration.kind = "str" \/ creation.kind = "str" THEN 0
             ELSE RoundYears(expiration.day - creation.day)

\* lines 314-321
domain_age_days(w) ==
    IF w.kind = "raise" THEN 0
    ELSE LET creation == FirstDate(w.creation_date)
         IN  IF creation.kind # "date" THEN 0 ELSE Now - creation.day

\* no outer handler: the exception leaves extract_external_features
ExternalRaised(features, e, events) ==
    [exc |-> e, blocked |-> FALSE, ret |-> <<>>, log |-> <<>>, io |-> events]

\* lines 350-352: the outer handler keeps what was set so far and adds "error"
ExternalFailed(features, e, events) ==
    [exc |-> None, blocked |-> FALSE, ret |-> Put(features, "error", e),
     log |-> <<<<"ERROR", "Error processing external features">>>>, io |-> events]

ExternalDone(features, events) ==
    [exc |-> None, blocked |-> FALSE, ret |-> features, log |-> <<>>, io |-> events]

\* f"https://www.google.com/search?q=site:{hostname}"
google_query(hostname) ==
    <<"h", "t", "t", "p", "s", ":", "/", "/", "w", "w", "w", ".", "g", "o", "o", "g", "l", "e",
      ".", "c", "o", "m", "/", "s", "e", "a", "r", "c", "h", "?", "q", "=", "s", "i", "t", "e",
      ":">> \o hostname

pagerank_url ==
    <<"h", "t", "t", "p", "s", ":", "/", "/", "o", "p", "e", "n", "p", "a", "g", "e", "r", "a",
      "n", "k", ".", "c", "o", "m", "/", "a", "p", "i", "/", "v", "1", ".", "0", "/", "g", "e",
      "t", "P", "a", "g", "e", "R", "a", "n", "k">>

no_match_phrase ==
    <<"d", "i", "d", " ", "n", "o", "t", " ", "m", "a", "t", "c", "h", " ", "a", "n", "y", " ",
      "d", "o", "c", "u", "m", "e", "n", "t", "s">>

\* lines 336-348: the page-rank step, after f81..f86 are set
pagerank_outcome(features, pr_response, events) ==
    IF pr_response.kind = "blocked"
    THEN [exc |-> None, blocked |-> TRUE, ret |-> features, log |-> <<>>, io |-> events]
    ELSE IF pr_response.kind = "raise"
    THEN ExternalFailed(features, pr_response.exc, events)
    ELSE IF pr_response.status_code = 200
    THEN (IF pr_response.json = "malformed"
          THEN ExternalFailed(features, "KeyError", events)
          ELSE IF pr_response.json = "norank"
          THEN ExternalDone(Put(features, "f87_pagerank", -1), events)
          ELSE ExternalDone(Put(features, "f87_pagerank", pr_response.rank), events))
    ELSE ExternalDone(Put(features, "f87_pagerank", -1), events)

pagerank_step(features, events, world, openpagerank_api_key) ==
    IF openpagerank_api_key = None
    THEN ExternalDone(Put(features, "f87_pagerank", -1), events)
    ELSE pagerank_outcome(features,
                          requests_get(pagerank_url, Answer(world.pagerank), NoTimeout),
                          Append(events, IoEvent("GET", "pagerank", NoTimeout)))

\* lines 331-334 and on: the search-engine probe, after f81..f85 are set
probe_outcome(features, response, events, world, openpagerank_api_key) ==
    IF response.kind = "raise"
    THEN ExternalFailed(features, response.exc, events)
    ELSE pagerank_step(
             Put(features, "f86_google_indexed",
                 Int01(~Contains(Lower(response.text), no_match_phrase))),
             events, world, openpagerank_api_key)

probe_step(features, events, hostname, world, openpagerank_api_key) ==
    probe_outcome(features,
                  requests_get(google_query(hostname), Answer(world.probe), "5"),
                  Append(events, IoEvent("GET", "probe", "5")),
                  world, openpagerank_api_key)

\* extract_external_features(url, openpagerank_api_key)
whois_features(w) ==
    <<<<"f81_whois_registered", whois_registered(w)>>,
      <<"f82_registration_years", registration_years(w)>>,
      <<"f83_domain_age_days", domain_age_days(w)>>,
      <<"f84_web_traffic", -1>>>>

\* lines 325-329 and on: the DNS step, after f81..f84 are set
dns_step(features, events, hostname, world, openpagerank_api_key) ==
    IF world.dns = "UnicodeError"
    THEN ExternalFailed(features, "UnicodeError", events)
    ELSE probe_step(Put(features, "f85_dns_record", Int01(world.dns = "ok")),
                    events, hostname, world, openpagerank_api_key)

\* the WHOIS lookup outside any inner try: its exception goes to the outer handler
\* before a feature is set
whois_unguarded(parsed, world, openpagerank_api_key) ==
    IF parsed.exc # None
    THEN ExternalFailed(<<>>, parsed.exc, <<>>)
    ELSE IF parsed.hostname = NoHostname
    THEN ExternalDone(<<<<"error", "Invalid URL">>>>, <<>>)
    ELSE IF Answer(world.whois).kind = "raise"
    THEN ExternalFailed(<<>>, "whois failed", <<IoEvent("WHOIS", "whois", NoTimeout)>>)
    ELSE dns_step(whois_features(Answer(world.whois)),
                  <<IoEvent("WHOIS", "whois", NoTimeout),
                    IoEvent("DNS", "gethostbyname", NoTimeout)>>,
                  parsed.hostname, world, openpagerank_api_key)

external_features_of(parsed, world, openpagerank_api_key) ==
    IF parsed.exc # None
    THEN ExternalFailed(<<>>, parsed.exc, <<>>)
    ELSE IF parsed.hostname = NoHostname
    THEN ExternalDone(<<<<"error", "Invalid URL">>>>, <<>>)
    ELSE dns_step(whois_features(Answer(world.whois)),
                  <<IoEvent("WHOIS", "whois", NoTimeout),
                    IoEvent("DNS", "gethostbyname", NoTimeout)>>,
                  parsed.hostname, world, openpagerank_api_key)

extract_external_features(url0, world, openpagerank_api_key) ==
    external_features_of(urlparse(normalize_url(url0)), world, openpagerank_api_key)

(***************************************************************************)
(* The worlds and the lines checked                                        *)
(***************************************************************************)
RedirectAnswers == {"Raise", "Silent", "NotRedirected", "RedirectedAway"}

PageAnswers == {"Raise", "Silent", "PagePlain", "PagePhish", "PageEmptyTitle"}

WhoisAnswers == {"Raise", "WhoisFree", "WhoisRegistered", "WhoisOddDates"}

DnsAnswers == {"ok", "socket.error", "UnicodeError"}

ProbeAnswers == {"Raise", "Silent", "Indexed", "NotIndexed"}

PagerankAnswers == {"Raise", "Silent", "Ranked", "Unranked", "Malformed", "Forbidden"}

\* every collaborator answers, and the page is an ordinary one
Up ==
    [redirect |-> "NotRedirected", knownip |-> "KnownIps", page |-> "PagePhish",
     whois |-> "WhoisRegistered", dns |-> "ok", probe |-> "Indexed", pagerank |-> "Ranked"]

\* the answers that differ from Up for the collaborators of one feature group
GroupWorlds ==
    {[Up EXCEPT !.redirect = r, !.knownip = k] :
         r \in RedirectAnswers, k \in {"KnownIps", "Unreadable"}}
    \cup {[Up EXCEPT !.page = p] : p \in PageAnswers}
    \cup {[Up EXCEPT !.whois = w, !.dns = d, !.probe = p, !.pagerank = r] :
              w \in WhoisAnswers, d \in DnsAnswers, p \in ProbeAnswers,
              r \in PagerankAnswers}

Texts == {LineExample, LineBlank, LineBracket, LineIp, LinePaypal}

Line(text, net) == [text |-> text, net |-> net]

\* one URL with every answer of the collaborators
UrlLines == {Line(t, Up) : t \in Texts} \cup {Line(LineExample, w) : w \in GroupWorlds}

\* the lines the list files of a batch are made of: one that yields a row and
\* one that urlparse rejects
BatchLines == {Line(LineExample, Up), Line(LineBracket, Up)}

ApiKeys == {None, "key"}

AllLines == UrlLines \cup BatchLines

\* the collaborators each feature group talks to
UrlNet(net) == [redirect |-> net.redirect, knownip |-> net.knownip]

PageNet(net) == [page |-> net.page]

ExternalNet(net) ==
    [whois |-> net.whois, dns |-> net.dns, probe |-> net.probe, pagerank |-> net.pagerank]

\* what the three groups return for each line: the calls of lines 370-374 and
\* 393-397, url = i.strip() included
UrlFeaturesTable ==
    {<<c[1], c[2], extract_url_features(Strip(c[1]), c[2])>> :
        c \in {<<i.text, UrlNet(i.net)>> : i \in AllLines}}

FullFeatureSetTable ==
    {<<c[1], c[2], extract_full_feature_set(Strip(c[1]), c[2])>> :
        c \in {<<i.text, PageNet(i.net)>> : i \in AllLines}}

ExternalFeaturesTable ==
    {<<c[1], c[2], key, extract_external_features(Strip(c[1]), c[2], key)>> :
        c \in {<<i.text, ExternalNet(i.net)>> : i \in AllLines}, key \in ApiKeys}

UrlFeaturesOf(i) ==
    (CHOOSE e \in UrlFeaturesTable : e[1] = i.text /\ e[2] = UrlNet(i.net))[3]

FullFeatureSetOf(i) ==
    (CHOOSE e \in FullFeatureSetTable : e[1] = i.text /\ e[2] = PageNet(i.net))[3]

ExternalFeaturesOf(i, key) ==
    (CHOOSE e \in ExternalFeaturesTable :
        e[1] = i.text /\ e[2] = ExternalNet(i.net) /\ e[3] = key)[4]

(***************************************************************************)
(* The batch script (lines 356-422)                                        *)
(***************************************************************************)
\* the slice bound of white_list[:2000] and black_list[:2000], scaled to the
\* length of the lists checked here
Cap == 2

\* the longest list file
MaxLines == 3

VARIABLES
    api_key,     \* os.getenv("OR_api_key")
    white_in,    \* Whitelist.txt, until it is read: [kind, lines]
    black_in,    \* Blacklist.txt, until it is read
    white_list,
    black_list,
    pc,          \* where the script is
    idx,         \* the position in the list being looped over, from 1
    stage,       \* the call of the loop body that comes next
    url,
    urlfeat,
    Htmlfeat,
    Exfeat,
    totalfeat,
    origin,      \* for each row of totalfeat, the list and position it came from
    log,         \* the records logged, <<level, message>>
    io,          \* the requests made for the current URL, in order
    csv,         \* FeaturesColumn.csv: whether it was opened, and the lines written
    client_pc,   \* where the polling client (user/feature-api-call.py) is
    task_id,
    status,
    posts,       \* the POST requests the client has issued
    polls,       \* the status requests the client has issued, counted up to MaxPolls
    delay        \* the seconds slept since the last status request

\* the state of the batch script
script_vars ==
    <<api_key, white_in, black_in, white_list, black_list, pc, idx, stage, url,
      urlfeat, Htmlfeat, Exfeat, totalfeat, origin, log, io, csv>>

\* the state of the polling client
client_vars == <<client_pc, task_id, status, posts, polls, delay>>

vars == <<script_vars, client_vars>>

\* task_id and status are not bound yet
Unbound == <<None>>

\* the polling client before its first statement
ClientStart ==
    /\ client_pc = "start"
    /\ task_id = Unbound
    /\ status = "unbound"
    /\ posts = 0
    /\ polls = 0
    /\ delay = 0

RECURSIVE SeqsUpTo(_, _)
SeqsUpTo(S, n) ==
    IF n = 0 THEN {<<>>}
    ELSE LET shorter == SeqsUpTo(S, n - 1)
         IN  shorter \cup {Append(s, x) : s \in {t \in shorter : Len(t) = n - 1}, x \in S}

\* a list file: missing or unreadable, or its lines
Files(lines, n) ==
    {Unreadable} \cup {[kind |-> "lines", lines |-> s] : s \in SeqsUpTo(lines, n)}

NotOpened == [opened |-> FALSE, lines |-> <<>>]

\* the state at line 356, before the whitelist is opened
InitWith(keys, whites, blacks) ==
    /\ api_key \in keys
    /\ white_in \in whites
    /\ black_in \in blacks
    /\ white_list = <<>>
    /\ black_list = <<>>
    /\ pc = "read_white"
    /\ idx = 1
    /\ stage = "url"
    /\ url = <<>>
    /\ urlfeat = <<>>
    /\ Htmlfeat = <<>>
    /\ Exfeat = <<>>
    /\ totalfeat = <<>>
    /\ origin = <<>>
    /\ log = <<>>
    /\ io = <<>>
    /\ csv = NotOpened
    /\ ClientStart

\* a batch over list files of up to MaxLines lines, without a page-rank API key
Init == InitWith({None}, Files(BatchLines, MaxLines), Files(BatchLines, MaxLines))

\* one URL with every answer of the collaborators in one list; the other list
\* is unreadable or holds one URL whose collaborators all answer
InitUrl ==
    \E l \in UrlLines :
        \E other \in {Unreadable, [kind |-> "lines", lines |-> <<Line(LineExample, Up)>>]} :
            \/ InitWith(ApiKeys, {[kind |-> "lines", lines |-> <<l>>]}, {other})
            \/ InitWith(ApiKeys, {other}, {[kind |-> "lines", lines |-> <<l>>]})

\* lines 360-365 and 385-390: readlines(), or the handler's empty list
ReadLines(file, path) ==
    IF file.kind = "unreadable"
    THEN [list |-> <<>>, log |-> <<<<"ERROR", "Failed to open " \o path>>>>]
    ELSE [list |-> file.lines, log |-> <<>>]

\* random.shuffle(s): the orders it can leave s in
Shuffles(s) == {[i \in 1..Len(s) |-> s[f[i]]] : f \in Permutations(1..Len(s))}

\* the loop runs over the whole list
WholeList(xs, n) == xs

\* xs[:n]
Slice(xs, n) == SubSeq(xs, 1, IF Len(xs) < n THEN Len(xs) ELSE n)

\* lines 360-367
ReadWhitelist ==
    /\ pc = "read_white"
    /\ LET r == ReadLines(white_in, "PhishingLink/Whitelist.txt")
       IN  /\ white_list' \in Shuffles(r.list)
           /\ log' = log \o r.log
    /\ pc' = "white"
    /\ idx' = 1
    /\ UNCHANGED client_vars
    /\ UNCHANGED <<api_key, white_in, black_in, black_list, stage, url, urlfeat, Htmlfeat,
                   Exfeat, totalfeat, origin, io, csv>>

\* lines 384-390
ReadBlacklist ==
    /\ pc = "read_black"
    /\ LET r == ReadLines(black_in, "PhishingLink/Blacklist.txt")
       IN  /\ black_list' = r.list
           /\ log' = log \o r.log
    /\ pc' = "black"
    /\ idx' = 1
    /\ UNCHANGED client_vars
    /\ UNCHANGED <<api_key, white_in, black_in, white_list, stage, url, urlfeat, Htmlfeat,
                   Exfeat, totalfeat, origin, io, csv>>

\* the list a loop runs over
Looped(source) == IF source = "white" THEN Slice(white_list, Cap) ELSE Slice(black_list, Cap)

SourceName(source) == IF source = "white" THEN "whitelist" ELSE "blacklist"

\* a handler around the loop instead of its body: the exception ends the loop
HandleAndLeaveLoop(source) ==
    /\ log' = Append(log, <<"ERROR", "Error processing " \o SourceName(source) \o " URL">>)
    /\ pc' = IF source = "white" THEN "read_black" ELSE "write"
    /\ idx' = idx + 1
    /\ stage' = "url"
    /\ urlfeat' = <<>>
    /\ Htmlfeat' = <<>>
    /\ Exfeat' = <<>>
    /\ UNCHANGED <<totalfeat, origin>>

\* lines 380-381 and 403-404: the handler of the loop body, and the next iteration
HandleAndContinue(source) ==
    /\ log' = Append(log, <<"ERROR", "Error processing " \o SourceName(source) \o " URL">>)
    /\ idx' = idx + 1
    /\ stage' = "url"
    /\ urlfeat' = <<>>
    /\ Htmlfeat' = <<>>
    /\ Exfeat' = <<>>
    /\ UNCHANGED <<pc, totalfeat, origin>>

\* lines 370-372 and 393-395: url = i.strip() and the call of extract_url_features
UrlFeatures(source) ==
    /\ pc = source
    /\ stage = "url"
    /\ idx <= Len(Looped(source))
    /\ \E i \in {Looped(source)[idx]} :
       \E r \in {UrlFeaturesOf(i)} :
           /\ url' = Strip(i.text)
           /\ io' = r.io
           /\ IF r.exc # None
              THEN HandleAndContinue(source)
              ELSE /\ urlfeat' = r.ret
                   /\ log' = log \o r.log
                   /\ stage' = "full"
                   /\ UNCHANGED <<pc, idx, Htmlfeat, Exfeat, totalfeat, origin>>
    /\ UNCHANGED client_vars
    /\ UNCHANGED <<api_key, white_in, black_in, white_list, black_list, csv>>

\* lines 373 and 396
FullFeatureSet(source) ==
    /\ pc = source
    /\ stage = "full"
    /\ \E r \in {FullFeatureSetOf(Looped(source)[idx])} :
           /\ io' = io \o r.io
           /\ IF r.exc # None
              THEN HandleAndContinue(source)
              ELSE /\ Htmlfeat' = r.ret
                   /\ log' = log \o r.log
                   /\ stage' = "external"
                   /\ UNCHANGED <<pc, idx, urlfeat, Exfeat, totalfeat, origin>>
    /\ UNCHANGED client_vars
    /\ UNCHANGED <<api_key, white_in, black_in, white_list, black_list, url, csv>>

\* lines 374 and 397; a request that never returns leaves the script blocked in it
ExternalFeatures(source) ==
    /\ pc = source
    /\ stage = "external"
    /\ \E r \in {ExternalFeaturesOf(Looped(source)[idx], api_key)} :
           /\ io' = io \o r.io
           /\ IF r.blocked
              THEN /\ pc' = "blocked"
                   /\ UNCHANGED <<idx, stage, urlfeat, Htmlfeat, Exfeat, totalfeat, origin,
                                  log>>
              ELSE IF r.exc # None
              THEN HandleAndContinue(source)
              ELSE /\ Exfeat' = r.ret
                   /\ log' = log \o r.log
                   /\ stage' = "merge"
                   /\ UNCHANGED <<pc, idx, urlfeat, Htmlfeat, totalfeat, origin>>
    /\ UNCHANGED client_vars
    /\ UNCHANGED <<api_key, white_in, black_in, white_list, black_list, url, csv>>

\* the result mapping of the whitelist loop in both loops
CombinedAsWhitelist(u, h, e, label) ==
    Merge(Merge(Merge(u, h), e), <<<<"isPhishing", FALSE>>>>)

\* lines 375-376 and 398-399: {**urlfeat, **Htmlfeat, **Exfeat, **result}
Combined(u, h, e, label) == Merge(Merge(Merge(u, h), e), <<<<"isPhishing", label>>>>)

\* lines 375-379 and 398-402
MergeAppend(source) ==
    /\ pc = source
    /\ stage = "merge"
    /\ totalfeat' = Append(totalfeat, Combined(urlfeat, Htmlfeat, Exfeat, source = "black"))
    /\ origin' = Append(origin, <<source, idx>>)
    /\ log' = IF (idx - 1) % 5 = 0
              THEN Append(log, <<"INFO", "[+] Processed " \o SourceName(source) \o " URL">>)
              ELSE log
    /\ idx' = idx + 1
    /\ stage' = "url"
    /\ urlfeat' = <<>>
    /\ Htmlfeat' = <<>>
    /\ Exfeat' = <<>>
    /\ UNCHANGED client_vars
    /\ UNCHANGED <<api_key, white_in, black_in, white_list, black_list, pc, url, io, csv>>

\* lines 382 and 405: the loop is over
EndLoop(source) ==
    /\ pc = source
    /\ stage = "url"
    /\ idx > Len(Looped(source))
    /\ log' = Append(log, <<"INFO", "Finished processing " \o SourceName(source) \o ".">>)
    /\ pc' = IF source = "white" THEN "read_black" ELSE "write"
    /\ UNCHANGED client_vars
    /\ UNCHANGED <<api_key, white_in, black_in, white_list, black_list, idx, stage, url,
                   urlfeat, Htmlfeat, Exfeat, totalfeat, origin, io, csv>>

(***************************************************************************)
(* The CSV writer (lines 408-422), with csv.DictWriter as the code makes   *)
(* it: extrasaction="raise", restval=""                                    *)
(***************************************************************************)
\* DictWriter._dict_to_list: ValueError when the row has a key that is no field
\* name; the cell of a field name the row lacks is restval
dict_to_list(fieldnames, rowdict) ==
    IF \E k \in KeySet(rowdict) : \A i \in 1..Len(fieldnames) : fieldnames[i] # k
    THEN [exc |-> "dict contains fields not in fieldnames", cells |-> <<>>]
    ELSE [exc |-> None,
          cells |-> [i \in 1..Len(fieldnames) |-> GetOr(rowdict, fieldnames[i], "")]]

\* DictWriter.writerows: the rows are converted and written one by one, so the
\* rows before one that raises are written already
RECURSIVE writerows(_, _, _)
writerows(fieldnames, rowdicts, written) ==
    IF rowdicts = <<>> THEN [exc |-> None, lines |-> written]
    ELSE LET r == dict_to_list(fieldnames, Head(rowdicts))
         IN  IF r.exc # None THEN [exc |-> r.exc, lines |-> written]
             ELSE writerows(fieldnames, Tail(rowdicts), Append(written, r.cells))

\* lines 413-417, given that open() succeeded: the header line, then the rows
WriteTable(rows) ==
    LET fieldnames == Keys(rows[1])
    IN  writerows(fieldnames, rows, <<fieldnames>>)

\* the writer without the test of line 408: totalfeat[0] raises in the try, after
\* the file was opened
WriteCsvUnguarded ==
    /\ pc = "write"
    /\ IF totalfeat # <<>>
       THEN \E w \in {WriteTable(totalfeat)} :
                /\ csv' = [opened |-> TRUE, lines |-> w.lines]
                /\ log' = Append(log,
                              IF w.exc # None
                              THEN <<"ERROR", "Error writing CSV">>
                              ELSE <<"INFO", "CSV successfully written">>)
       ELSE /\ csv' = [opened |-> TRUE, lines |-> <<>>]
            /\ log' = Append(log, <<"ERROR", "Error writing CSV">>)
    /\ pc' = "done"
    /\ UNCHANGED client_vars
    /\ UNCHANGED <<api_key, white_in, black_in, white_list, black_list, idx, stage, url,
                   urlfeat, Htmlfeat, Exfeat, totalfeat, origin, io>>

\* lines 408-422; open() raises when the file cannot be created
WriteCsv ==
    /\ pc = "write"
    /\ IF totalfeat # <<>>
       THEN \E can_open \in BOOLEAN :
                IF ~can_open
                THEN /\ csv' = csv
                     /\ log' = Append(log, <<"ERROR", "Error writing CSV">>)
                ELSE \E w \in {WriteTable(totalfeat)} :
                         /\ csv' = [opened |-> TRUE, lines |-> w.lines]
                         /\ log' = Append(log,
                                       IF w.exc # None
                                       THEN <<"ERROR", "Error writing CSV">>
                                       ELSE <<"INFO", "CSV successfully written">>)
       ELSE /\ csv' = csv
            /\ log' = Append(log, <<"ERROR", "No features were extracted; CSV not written.">>)
    /\ pc' = "done"
    /\ UNCHANGED client_vars
    /\ UNCHANGED <<api_key, white_in, black_in, white_list, black_list, idx, stage, url,
                   urlfeat, Htmlfeat, Exfeat, totalfeat, origin, io>>

Sources == {"white", "black"}

Next ==
    \/ ReadWhitelist
    \/ ReadBlacklist
    \/ \E source \in Sources : UrlFeatures(source)
    \/ \E source \in Sources : FullFeatureSet(source)
    \/ \E source \in Sources : ExternalFeatures(source)
    \/ \E source \in Sources : MergeAppend(source)
    \/ \E source \in Sources : EndLoop(source)
    \/ WriteCsv

\* a batch over list files of up to MaxLines lines
Spec == Init /\ [][Next]_vars

\* the script run on one URL, with every answer of the collaborators
SpecUrl == InitUrl /\ [][Next]_vars

(***************************************************************************)
(* The polling client (user/feature-api-call.py)                           *)
(***************************************************************************)
\* the longest count of status requests kept
MaxPolls == 3

\* time.sleep(2)
PollDelay == 2

start_task_url ==
    <<"h", "t", "t", "p", ":", "/", "/", "l", "o", "c", "a", "l", "h", "o", "s", "t", ":",
      "8", "0", "0", "0", "/", "s", "t", "a", "r", "t", "-", "t", "a", "s", "k", "/">>

\* f"http://localhost:8000/task-status/{task_id}"
status_url(id) ==
    <<"h", "t", "t", "p", ":", "/", "/", "l", "o", "c", "a", "l", "h", "o", "s", "t", ":",
      "8", "0", "0", "0", "/", "t", "a", "s", "k", "-", "s", "t", "a", "t", "u", "s", "/">>
    \o id

\* a response whose body is the JSON object `json`
JsonResponse(json) == [kind |-> "response", json |-> json]

TaskIds == {<<"a">>, <<"b">>}

\* what the server may answer to the POST: nothing, an exception, an object
\* without "task_id", an object with one
StartAnswers ==
    {Raise, Silent, JsonResponse(<<>>)}
    \cup {JsonResponse(<<<<"task_id", id>>>>) : id \in TaskIds}

Terminal == {"SUCCESS", "FAILURE"}

\* the statuses the status endpoint reports
Statuses == {"PENDING", "STARTED", "RETRY"} \cup Terminal

\* what the server may answer to a status request
StatusAnswers ==
    {Raise, Silent, JsonResponse(<<>>)}
    \cup {JsonResponse(<<<<"status", st>>>>) : st \in Statuses}

\* requests.post(url, json=...), without timeout=
requests_post(url0, answer) == Respond(urlparse(url0), answer, NoTimeout)

CountUp(n) == IF n < MaxPolls THEN n + 1 ELSE n

\* lines 5-9: the POST, response.json() and task_info["task_id"]; an exception
\* ends the script
StartTask ==
    /\ client_pc = "start"
    /\ posts' = posts + 1
    /\ \E answer \in StartAnswers :
       \E response \in {requests_post(start_task_url, answer)} :
           IF response.kind = "blocked"
           THEN client_pc' = "blocked" /\ task_id' = task_id
           ELSE IF response.kind = "raise" \/ ~Has(response.json, "task_id")
           THEN client_pc' = "raised" /\ task_id' = task_id
           ELSE client_pc' = "poll" /\ task_id' = Get(response.json, "task_id")
    /\ UNCHANGED <<status, polls, delay>>
    /\ UNCHANGED script_vars

\* lines 15-19: the GET of the status, status_response.json() and
\* status_data.get("status")
Poll ==
    /\ client_pc = "poll"
    /\ polls' = CountUp(polls)
    /\ delay' = 0
    /\ \E answer \in StatusAnswers :
       \E response \in {requests_get(status_url(task_id), answer, NoTimeout)} :
           IF response.kind = "blocked"
           THEN client_pc' = "blocked" /\ status' = status
           ELSE IF response.kind = "raise"
           THEN client_pc' = "raised" /\ status' = status
           ELSE client_pc' = "check" /\ status' = GetOr(response.json, "status", None)
    /\ UNCHANGED <<task_id, posts>>
    /\ UNCHANGED script_vars

\* a client that takes only SUCCESS for the end of the task
CheckStatusSuccessOnly ==
    /\ client_pc = "check"
    /\ client_pc' = IF status = "SUCCESS" THEN "done" ELSE "sleep"
    /\ UNCHANGED <<task_id, status, posts, polls, delay>>
    /\ UNCHANGED script_vars

\* lines 21-27: break on SUCCESS and on FAILURE, else the branch that sleeps
CheckStatus ==
    /\ client_pc = "check"
    /\ client_pc' = IF status = "SUCCESS" THEN "done"
                    ELSE IF status = "FAILURE" THEN "done"
                    ELSE "sleep"
    /\ UNCHANGED <<task_id, status, posts, polls, delay>>
    /\ UNCHANGED script_vars

\* line 29: time.sleep(2), then the next turn of the loop
Sleep ==
    /\ client_pc = "sleep"
    /\ delay' = delay + PollDelay
    /\ client_pc' = "poll"
    /\ UNCHANGED <<task_id, status, posts, polls>>
    /\ UNCHANGED script_vars

\* the client alone; the batch script has nothing to read
InitClient == InitWith({None}, {Unreadable}, {Unreadable})

NextClient ==
    \/ StartTask
    \/ Poll
    \/ CheckStatus
    \/ Sleep

\* the client is a sequential script: the test of the status and time.sleep, once
\* reached, do run and return (a request may wait for ever; nothing is assumed
\* of it)
SpecClient ==
    InitClient /\ [][NextClient]_vars /\ WF_vars(CheckStatus) /\ WF_vars(Sleep)

(***************************************************************************)
(* Properties                                                              *)
(***************************************************************************)
\* the line the k-th iteration of a source's loop works on
LineOf(source, k) == Looped(source)[k]

\* extract_url_features raises on the line (urlparse rejects it), so the loop
\* body leaves through its handler
Raises(line) == urlparse(normalize_url(Strip(line.text))).exc # None

\* the loop of the source has finished with its k-th line
Processed(source, k) ==
    /\ k \in 1..Len(Looped(source))
    /\ \/ pc \in {"write", "done"}
       \/ source = "white" /\ pc \in {"read_black", "black"}
       \/ pc = source /\ idx > k

\* the positions in totalfeat of the rows of a source
RowsOf(source) == {j \in 1..Len(origin) : origin[j][1] = source}

HasRowFor(source, k) == \E j \in 1..Len(origin) : origin[j] = <<source, k>>

LastLog == log[Len(log)]

\* C1 (as claimed): every row of totalfeat has the same keys in the same order as
\* every other row, whatever the collaborators answered.
C1_SameKeysInEveryRow ==
    \A i, j \in 1..Len(totalfeat) : Keys(totalfeat[i]) = Keys(totalfeat[j])

\* C2, final part: once the loops are over, the lines of both capped lists that
\* have a row are exactly those on which no feature-group call raised, so a
\* raising line costs neither the later lines of its list nor the other list.
C2_OnlyRaisingLinesSkipped ==
    pc \in {"write", "done"} =>
        \A source \in Sources : \A k \in 1..Len(Looped(source)) :
            HasRowFor(source, k) <=> ~Raises(LineOf(source, k))

\* C2, step part: the iteration of a raising line leaves totalfeat as it was and
\* the loop where it was, one line further; no step ever changes or drops a row
\* accumulated before.
C2_RaiseStep ==
    /\ Len(totalfeat') >= Len(totalfeat)
    /\ SubSeq(totalfeat', 1, Len(totalfeat)) = totalfeat
    /\ \A source \in Sources :
           (pc = source /\ stage = "url" /\ idx <= Len(Looped(source))
               /\ Raises(LineOf(source, idx)))
           => (totalfeat' = totalfeat /\ pc' = source /\ idx' = idx + 1 /\ stage' = "url")

\* C2: a URL on which a feature-group call raises contributes no row and changes
\* no accumulated row, and every later URL of its source and the whole other
\* source are still processed; no exception leaves the loops.
C2_FailureIsolation == [](C2_OnlyRaisingLinesSkipped) /\ [][C2_RaiseStep]_vars

\* a finished batch in which a raising whitelist line is followed by one that got
\* its row, and the blacklist got a row as well
C2_Witness ==
    /\ pc = "done"
    /\ \E k \in 1..Len(Looped("white")) : \E m \in (k + 1)..Len(Looped("white")) :
           Raises(LineOf("white", k)) /\ HasRowFor("white", m)
    /\ RowsOf("black") # {}

\* the HTTP GET of extract_full_feature_set raises for the line (no host to
\* connect to, a connection error, no answer within the timeout), or the parsing
\* does (a <title> without text)
C3_Fails(line) ==
    \/ urlparse(normalize_url(Strip(line.text))).hostname = NoHostname
    \/ line.net.page \in {"Raise", "Silent", "PageEmptyTitle"}

\* the keys of the success path (lines 231-255), from a page that parses
C3_KeysOnSuccess == Keys(FullFeaturesOf(PagePlain, <<"x">>))

\* C3, the returned dict: the key set of the success path; the error flag is true
\* exactly when the GET or the parsing raised, and then every feature is 0.
C3_Returned ==
    \A source \in Sources :
        (pc = source /\ stage \in {"external", "merge"}) =>
            /\ Len(C3_KeysOnSuccess) = 25
            /\ Keys(Htmlfeat) = C3_KeysOnSuccess
            /\ Get(Htmlfeat, "error") = C3_Fails(LineOf(source, idx))
            /\ C3_Fails(LineOf(source, idx)) => \A k \in 1..24 : Htmlfeat[k][2] = 0

\* C3, the call: it returns to the loop body, which goes on to the next call for
\* the same URL.
C3_ReturnsStep ==
    \A source \in Sources :
        (pc = source /\ stage = "full") => (pc' = source /\ stage' = "external" /\ idx' = idx)

\* C3: when the GET or the parsing raises, extract_full_feature_set raises nothing
\* and returns the key set of the success path (f57..f80 and the error flag) with
\* every feature 0 and the flag true; on the success path the flag is false.
C3_FullFeatureFailurePolicy == [](C3_Returned) /\ [][C3_ReturnsStep]_vars

\* extract_full_feature_set has returned from its failure path
C3_Witness ==
    \E source \in Sources :
        /\ pc = source
        /\ stage = "external"
        /\ LineOf(source, idx).net.page = "PageEmptyTitle"
        /\ Get(Htmlfeat, "error")

\* C4 (as claimed): once the table is opened with the first row's keys as header,
\* any later row whose key set differs from the header's makes the write fail
\* with an error, and the row is not written as a line of the table.
C4_DifferingRowFailsTheWrite ==
    (pc = "done" /\ csv.opened) =>
        \A i \in 2..Len(totalfeat) :
            KeySet(totalfeat[i]) # KeySet(totalfeat[1]) =>
                /\ LastLog = <<"ERROR", "Error writing CSV">>
                /\ Len(csv.lines) <= i

\* C5 (as claimed): the key sets the three feature groups return for a URL and
\* the label mapping are pairwise disjoint, on every path, so the merge lets no
\* group overwrite another group's value.
C5_NoCrossGroupKeyCollision ==
    \A source \in Sources :
        (pc = source /\ stage = "merge") =>
            /\ KeySet(urlfeat) \cap KeySet(Htmlfeat) = {}
            /\ KeySet(urlfeat) \cap KeySet(Exfeat) = {}
            /\ KeySet(Htmlfeat) \cap KeySet(Exfeat) = {}
            /\ "isPhishing" \notin KeySet(urlfeat) \cup KeySet(Htmlfeat) \cup KeySet(Exfeat)

\* the requests that go to the network
NetworkOps == {"GET", "WHOIS", "DNS"}

\* C6 (as claimed): every network call made for a URL carries an explicit
\* timeout, and the script is never left waiting in a call that does not return.
C6_EveryCallBounded ==
    /\ \A i \in 1..Len(io) : io[i].op \in NetworkOps => io[i].timeout # NoTimeout
    /\ pc # "blocked"

\* C7: when the loops leave totalfeat empty, the script ends without opening or
\* writing the output file, and what it logs last is the "no features" record, not
\* the record of a failed write, which the log does not hold at all.
C7_EmptyAccumulator ==
    (pc = "done" /\ totalfeat = <<>>) =>
        /\ csv = NotOpened
        /\ LastLog = <<"ERROR", "No features were extracted; CSV not written.">>
        /\ \A i \in 1..Len(log) : log[i] # <<"ERROR", "Error writing CSV">>

\* the script has ended with no row because every URL of the whitelist was skipped
C7_Witness ==
    /\ pc = "done"
    /\ totalfeat = <<>>
    /\ Len(Looped("white")) > 0
    /\ csv = NotOpened

\* the lines of a source's list file
InputOf(source) ==
    LET file == IF source = "white" THEN white_in ELSE black_in
    IN  IF file.kind = "unreadable" THEN <<>> ELSE file.lines

\* the URL a row was computed from
UrlOfRow(row) == Get(row, "url_length")

\* C8: each source has at most Cap rows in totalfeat, and its rows can be matched
\* one to one with lines of its list file, each row being that of its line's URL.
C8_PerSourceCap ==
    \A source \in Sources :
        /\ Cardinality(RowsOf(source)) <= Cap
        /\ \E f \in [RowsOf(source) -> 1..Len(InputOf(source))] :
               /\ \A i, j \in RowsOf(source) : f[i] = f[j] => i = j
               /\ \A j \in RowsOf(source) :
                      UrlOfRow(totalfeat[j])
                          = normalize_url(Strip(InputOf(source)[f[j]].text))

\* a finished batch whose whitelist had more than Cap lines, none of them
\* skipped, and got Cap rows
C8_Witness ==
    /\ pc = "done"
    /\ Len(InputOf("white")) > Cap
    /\ \A k \in 1..Len(InputOf("white")) : ~Raises(InputOf("white")[k])
    /\ Cardinality(RowsOf("white")) = Cap

\* the URL of the line names a host, so extract_external_features gets to WHOIS
HasHost(line) ==
    /\ ~Raises(line)
    /\ urlparse(normalize_url(Strip(line.text))).hostname # NoHostname

Issued(events, what) == \E i \in 1..Len(events) : events[i].what = what

\* C9: a call of extract_external_features whose WHOIS lookup raises hands no
\* exception to the loop body; f81, f82 and f83 are 0 in what it returns; and the
\* later steps run as far as their own outcomes let them: the DNS lookup always,
\* the probe unless the DNS lookup raised past its handler, the page-rank step
\* when the probe answered. (With an API key and a page-rank server that never
\* answers, the call does not return at all.)
C9_WhoisStep ==
    \A source \in Sources :
        (pc = source /\ stage = "external" /\ HasHost(LineOf(source, idx))
            /\ LineOf(source, idx).net.whois = "Raise")
        => \/ /\ pc' = "blocked"
              /\ Issued(io', "gethostbyname") /\ Issued(io', "probe") /\ Issued(io', "pagerank")
           \/ /\ pc' = source /\ stage' = "merge" /\ idx' = idx
              /\ GetOr(Exfeat', "f81_whois_registered", 1) = 0
              /\ GetOr(Exfeat', "f82_registration_years", 1) = 0
              /\ GetOr(Exfeat', "f83_domain_age_days", 1) = 0
              /\ Issued(io', "gethostbyname")
              /\ LineOf(source, idx).net.dns # "UnicodeError" => Issued(io', "probe")
              /\ (LineOf(source, idx).net.dns # "UnicodeError"
                     /\ LineOf(source, idx).net.probe \in {"Indexed", "NotIndexed"})
                 => /\ Has(Exfeat', "f86_google_indexed")
                    /\ api_key # None => Issued(io', "pagerank")
                    /\ api_key = None => GetOr(Exfeat', "f87_pagerank", 0) = -1

C9_WhoisFailure == [][C9_WhoisStep]_vars

\* extract_external_features has returned all seven features after a WHOIS
\* lookup that raised and a page-rank request that was answered
C9_Witness ==
    \E source \in Sources :
        /\ pc = source
        /\ stage = "merge"
        /\ LineOf(source, idx).net.whois = "Raise"
        /\ GetOr(Exfeat, "f83_domain_age_days", 1) = 0
        /\ Issued(io, "pagerank")
        /\ Has(Exfeat, "f87_pagerank")

\* the probe is reached and raises: a connection error, or no answer within its
\* timeout
ProbeRaises(line) ==
    /\ HasHost(line)
    /\ line.net.dns # "UnicodeError"
    /\ line.net.probe \in {"Raise", "Silent"}

\* C10 (as claimed): the exception of the probe leaves extract_external_features,
\* the loop body is abandoned for that URL, and no row is appended for it.
C10_ProbeFailureSkipsUrl ==
    \A source \in Sources : \A k \in 1..Len(Looped(source)) :
        (Processed(source, k) /\ ProbeRaises(LineOf(source, k))) => ~HasRowFor(source, k)

\* C10 as amended, the call: the exception of the probe is caught by the handler
\* of lines 350-352; the call logs it and returns f81..f85 and an "error" entry
\* with the exception's text, without a page-rank request.
C10_ProbeStep ==
    \A source \in Sources :
        (pc = source /\ stage = "external" /\ ProbeRaises(LineOf(source, idx)))
        => /\ pc' = source /\ stage' = "merge" /\ idx' = idx
           /\ {"f81_whois_registered", "f82_registration_years", "f83_domain_age_days",
               "f84_web_traffic", "f85_dns_record", "error"} \subseteq KeySet(Exfeat')
           /\ Get(Exfeat', "error") \in {"ConnectionError", "ReadTimeout"}
           /\ ~Issued(io', "pagerank")
           /\ log'[Len(log')] = <<"ERROR", "Error processing external features">>

\* C10 as amended, the loop: the URL gets its row, with the "error" entry of
\* the call.
C10_ProbeRow ==
    \A source \in Sources : \A k \in 1..Len(Looped(source)) :
        (Processed(source, k) /\ ProbeRaises(LineOf(source, k))) =>
            \E j \in 1..Len(origin) :
                /\ origin[j] = <<source, k>>
                /\ Has(totalfeat[j], "f85_dns_record")
                /\ GetOr(totalfeat[j], "error", None) \in {"ConnectionError", "ReadTimeout"}

\* C10 as amended: an exception of the probe is caught inside
\* extract_external_features, which returns f81..f85 and an "error" entry, and
\* the loop appends a row for the URL.
C10_ProbeFailureCaught == [](C10_ProbeRow) /\ [][C10_ProbeStep]_vars

\* a finished run with a row for a URL whose probe raised
C10_Witness ==
    /\ pc = "done"
    /\ \E source \in Sources : \E k \in 1..Len(Looped(source)) :
           ProbeRaises(LineOf(source, k)) /\ HasRowFor(source, k)

\* C11 (as claimed): extract_url_features issues no network request and reads no
\* file, so when it has returned to the loop body nothing has been requested yet
\* for the URL; the first request of a URL's processing is made by a later group.
C11_UrlFeaturesIssueNoIo ==
    \A source \in Sources :
        (pc = source /\ stage = "full") => io = <<>>

\* C13: in every state, a row of totalfeat computed from a whitelist line has
\* isPhishing = False and a row computed from a blacklist line has isPhishing =
\* True; the label is the last entry of the row, merged after the groups'
\* dictionaries; and every whitelist row comes before every blacklist row.
C13_LabelIntegrity ==
    /\ Len(origin) = Len(totalfeat)
    /\ \A j \in 1..Len(totalfeat) :
           /\ totalfeat[j][Len(totalfeat[j])][1] = "isPhishing"
           /\ totalfeat[j][Len(totalfeat[j])][2] = (origin[j][1] = "black")
    /\ \A i, j \in 1..Len(totalfeat) :
           (origin[i][1] = "white" /\ origin[j][1] = "black") => i < j

\* a finished batch with rows of both lists
C13_Witness ==
    /\ pc = "done"
    /\ RowsOf("white") # {}
    /\ RowsOf("black") # {}
    /\ \E j \in RowsOf("black") : Get(totalfeat[j], "isPhishing")

\* C12, the states: the task is submitted once, and before any status request;
\* the client ends its loop only on SUCCESS or FAILURE.
C12_States ==
    /\ posts <= 1
    /\ polls > 0 => (posts = 1 /\ task_id # Unbound)
    /\ client_pc = "done" => (status \in Terminal /\ polls > 0)

\* C12, the steps: only the first statement posts; a status other than SUCCESS
\* and FAILURE leads to the sleep and the sleep, of PollDelay seconds, to the
\* next status request; SUCCESS and FAILURE end the client, which requests
\* nothing more.
C12_Steps ==
    /\ posts' # posts => (client_pc = "start" /\ polls = 0)
    /\ (client_pc = "check" /\ status \notin Terminal) => client_pc' = "sleep"
    /\ client_pc = "sleep" => (client_pc' = "poll" /\ delay' = PollDelay)
    /\ (client_pc = "poll" /\ polls > 0) => delay = PollDelay
    /\ (client_pc = "check" /\ status \in Terminal)
           => (client_pc' = "done" /\ polls' = polls /\ posts' = posts)
    /\ client_pc = "done" => UNCHANGED client_vars

\* C12: one submission before any poll; after every status other than SUCCESS
\* and FAILURE the client sleeps the fixed delay and polls again; after the first
\* SUCCESS or FAILURE it stops without another poll; so a terminal status that
\* the endpoint reports ends the client, and no other status does.
C12_PollingProtocol ==
    /\ []C12_States
    /\ [][C12_Steps]_vars
    /\ (client_pc = "check" /\ status \in Terminal) ~> (client_pc = "done")
    /\ (client_pc = "check" /\ status \notin Terminal) ~> (client_pc = "poll" /\ delay = PollDelay)

\* the client has ended on FAILURE after statuses that did not end it
C12_Witness ==
    /\ client_pc = "done"
    /\ status = "FAILURE"
    /\ polls > 1

=============================================================================
